---- MODULE Spec2Model ----
(***************************************************************************)
(* A model of the Markov chain of lib/chain.js (the version that exports   *)
(* `Chain` itself and keys composite tokens by a tagged tuple) and of the  *)
(* sampling helpers of lib/util.js.                                        *)
(*                                                                         *)
(* Tokens are records [k, v, id]: k is the JavaScript type of the value,   *)
(* v its content as text and id the identity of an object (0 for values    *)
(* that are compared by value).  JavaScript Maps and Sets keep insertion   *)
(* order, so a Map is a sequence of [key, val] entries.                    *)
(***************************************************************************)
EXTENDS Integers, Sequences, FiniteSets, TLC

(***************************************************************************)
(* Bounds of the model.                                                    *)
(***************************************************************************)
MaxOrder == 1
MaxRunLen == 2
MaxCorpus == 1
MaxCycleRun == 3

MaxSeeds == 1
MaxTokens == 2
MaxSteps == 2
MaxRecords == 3
MaxStateLen == 2
MaxNegative == 2
MaxWeight == 3
MaxWeights == 3

(***************************************************************************)
(* Tokens.                                                                 *)
(***************************************************************************)
Tok(k, v, id) == [k |-> k, v |-> v, id |-> id]

BEGIN == Tok("symbol", "@@BEGIN", 0)

END == Tok("symbol", "@@END", 0)

Str(s) == Tok("string", s, 0)

Num(s) == Tok("number", s, 0)

\* a JavaScript object given by the caller: json is JSON.stringify of it,
\* id tells two structurally equal instances apart
Obj(json, id) == Tok("object", json, id)

\* tuple(OBJECT, value): the interned tagged tuple that stands for a
\* composite token inside the maps
ObjectToken(value) == Tok("objtoken", value, 0)

\* typeof v === 'object' (a tuple is an object too)
TypeofObject(v) == v.k \in {"object", "objtoken"}

\* the values `x || y` replaces by y
Falsy(v) ==
  \/ v.k = "number" /\ v.v = "0"
  \/ v.k = "string" /\ v.v = ""
  \/ v.k = "boolean" /\ v.v = "false"
  \/ v.k = "object" /\ v.v = "null"

\* JSON.stringify(data) of an object token's payload; a tuple(OBJECT, s)
\* has the symbol at index 0 dropped and s kept under the property "1"
JSONStringify(data) ==
  IF data.k = "objtoken" THEN "{\"1\":\"" \o data.v \o "\"}" ELSE data.v

\* JSON.parse(text): a new object whose serialisation is text
JSONParse(text) == Obj(text, 0)

makeObjectToken(data) ==
  ObjectToken(IF data.k = "string" THEN data.v ELSE JSONStringify(data))

isObjectToken(token) == token.k = "objtoken"

(***************************************************************************)
(* The alphabets runs and queries are drawn from.                          *)
(***************************************************************************)
Vocabularies ==
  { {Str("a"), Str("b")},
    {Str("a"), Obj("{\"a\":1}", 1)} }

\* the alphabets of the behaviours that only seed and serialise: a falsy
\* number, a string that reads like a reserved marker, and two instances
\* of one composite value
SeedVocabularies ==
  Vocabularies \cup
  { {Str("a"), Num("0")},
    {Str("Symbol(@@BEGIN)"), Str("Object({\"a\":1})")},
    {Str("a"), Obj("{\"a\":1}", 1), Obj("{\"a\":1}", 2)} }

\* the alphabets of composite values: two instances of one value with the
\* properties written in the same order, and two with the properties
\* written in different orders
CompositeVocabularies ==
  { {Obj("{\"a\":1}", 1), Obj("{\"a\":1}", 2)},
    {Obj("{\"a\":1,\"b\":2}", 1), Obj("{\"b\":2,\"a\":1}", 2)} }

RECURSIVE SeqsUpTo(_, _)
SeqsUpTo(S, n) ==
  IF n = 0 THEN {<<>>}
  ELSE LET shorter == SeqsUpTo(S, n - 1)
       IN  shorter \cup {Append(s, x) : s \in shorter, x \in S}

(***************************************************************************)
(* Maps in insertion order.                                                *)
(***************************************************************************)
Undefined == [k |-> "undefined", v |-> "", id |-> 0]

MapHas(map, key) == \E i \in 1..Len(map) : map[i].key = key

MapIndex(map, key) == CHOOSE i \in 1..Len(map) : map[i].key = key

MapGet(map, key) ==
  IF MapHas(map, key) THEN map[MapIndex(map, key)].val ELSE Undefined

MapSet(map, key, val) ==
  IF MapHas(map, key)
  THEN [map EXCEPT ![MapIndex(map, key)].val = val]
  ELSE Append(map, [key |-> key, val |-> val])

MapKeys(map) == [i \in 1..Len(map) |-> map[i].key]

MapValues(map) == [i \in 1..Len(map) |-> map[i].val]

KeySet(map) == {map[i].key : i \in 1..Len(map)}

(***************************************************************************)
(* The proxies: stateSpace and weightMap rewrite the key of set, get, has. *)
(***************************************************************************)
stateSpaceKey(key) ==
  [i \in 1..Len(key) |->
     IF TypeofObject(key[i]) THEN makeObjectToken(key[i]) ELSE key[i]]

weightMapKey(key) == IF TypeofObject(key) THEN makeObjectToken(key) ELSE key

modelHas(model, state) == MapHas(model, stateSpaceKey(state))

modelGet(model, state) == MapGet(model, stateSpaceKey(state))

\* mutant of modelSet: setting a state drops every other state
modelSetForgets(model, state, val) ==
  <<[key |-> stateSpaceKey(state), val |-> val]>>

modelSet(model, state, val) == MapSet(model, stateSpaceKey(state), val)

weightGet(map, key) == MapGet(map, weightMapKey(key))

weightSet(map, key, val) == MapSet(map, weightMapKey(key), val)

\* mutant of getInitialState: one BEGIN short
getInitialStateShort(order) == [i \in 1..order |-> BEGIN]

getInitialState(order) == [i \in 1..(1 + order) |-> BEGIN]

\* items.slice(from, to) with JavaScript's 0-based, end-exclusive indices
Slice(items, from, to) ==
  LET hi == IF to > Len(items) THEN Len(items) ELSE to
  IN  IF from >= hi THEN <<>> ELSE SubSeq(items, from + 1, hi)

\* items[i], undefined outside the array
At(items, i) ==
  IF i >= 0 /\ i < Len(items) THEN items[i + 1] ELSE Undefined

\* x || y
OrElse(x, y) == IF x = Undefined \/ Falsy(x) THEN y ELSE x

\* mutant of weightCount: the count already stored is forgotten
weightCountForgets(map, key) == 0

\* map.get(key) || 0 on a weight map
weightCount(map, key) ==
  IF MapHas(map, weightMapKey(key)) THEN weightGet(map, key) ELSE 0

(***************************************************************************)
(* Chain.seed                                                              *)
(***************************************************************************)
NoTokenMap == [defined |-> FALSE, map |-> <<>>]

\* the loop over the tokens of a state that registers it in the token map
RECURSIVE registerState(_, _, _)
registerState(map, state, j) ==
  IF j > Len(state) THEN map
  ELSE LET token == state[j]
           map1 == IF ~MapHas(map, token) THEN MapSet(map, token, {}) ELSE map
           entry == MapGet(map1, token)
       IN  registerState(MapSet(map1, token, entry \cup {state}), state, j + 1)

\* mutant of seedState: the window starts one token late
seedStateShifted(items, i, order) == Slice(items, i + 1, i + 2 + order)

\* const state = tuple(...items.slice(i, i + 1 + order))
seedState(items, i, order) == Slice(items, i, i + 1 + order)

\* mutant of seedNext: the last token of the window is taken as successor
seedNextInsideWindow(items, i, order) == At(items, i + order)

\* const next = items[i + 1 + order]
seedNext(items, i, order) == At(items, i + 1 + order)

\* mutant of seedPrev: the item two places before the window is recorded
seedPrevSkipsOne(items, i) == OrElse(At(items, i - 2), BEGIN)

\* const prev = items[i - 1] || BEGIN
seedPrev(items, i) == OrElse(At(items, i - 1), BEGIN)

\* one iteration of the loop of seed, on chain = [model, tokenMap]
seedIteration(chain, items, i, order) ==
  LET state == seedState(items, i, order)
      next == seedNext(items, i, order)
      prev == seedPrev(items, i)
      model1 == IF ~modelHas(chain.model, state)
                THEN modelSet(chain.model, state, <<<<>>, <<>>>>)
                ELSE chain.model
      stateMaps == modelGet(model1, state)
      nextCount == weightCount(stateMaps[1], next)
      prevCount == weightCount(stateMaps[2], prev)
      newMaps == <<weightSet(stateMaps[1], next, nextCount + 1),
                   weightSet(stateMaps[2], prev, prevCount + 1)>>
  IN  [model |-> modelSet(model1, state, newMaps),
       tokenMap |->
         IF chain.tokenMap.defined
         THEN [defined |-> TRUE,
               map |-> registerState(chain.tokenMap.map, state, 1)]
         ELSE chain.tokenMap]

RECURSIVE seedLoop(_, _, _, _, _)
seedLoop(chain, items, i, runLength, order) ==
  IF i < runLength + 1
  THEN seedLoop(seedIteration(chain, items, i, order), items, i + 1,
                runLength, order)
  ELSE chain

\* mutant of seed: an empty run is skipped
seedSkipsEmpty(run, chain, initialState, order) ==
  IF run = <<>> THEN chain
  ELSE seedLoop(chain, initialState \o run \o <<END>>, 0, Len(run), order)

\* Chain.seed(run, { model, tokenMap, initialState, order })
seed(run, chain, initialState, order) ==
  seedLoop(chain, initialState \o run \o <<END>>, 0, Len(run), order)

(***************************************************************************)
(* buildModel, buildTokenMap and the constructor                           *)
(***************************************************************************)
RECURSIVE buildModelLoop(_, _, _, _)
buildModelLoop(model, corpus, r, order) ==
  IF r > Len(corpus) THEN model
  ELSE buildModelLoop(
         seed(corpus[r], [model |-> model, tokenMap |-> NoTokenMap],
              getInitialState(order), order).model,
         corpus, r + 1, order)

buildModel(corpus, order) == buildModelLoop(<<>>, corpus, 1, order)

RECURSIVE buildTokenMapLoop(_, _, _)
buildTokenMapLoop(map, keys, s) ==
  IF s > Len(keys) THEN map
  ELSE buildTokenMapLoop(registerState(map, keys[s], 1), keys, s + 1)

\* mutant of buildTokenMap: only the first state is registered
buildTokenMapOfFirst(model) ==
  buildTokenMapLoop(<<>>, Slice(MapKeys(model), 0, 1), 1)

buildTokenMap(model) == buildTokenMapLoop(<<>>, MapKeys(model), 1)

\* new Chain({ corpus, order, useTokenMap })
newChain(corpus, order, useTokenMap) ==
  LET built == buildModel(corpus, order)
  IN  [order |-> order,
       model |-> built,
       tokenMap |-> IF useTokenMap /\ order > 0
                    THEN [defined |-> TRUE, map |-> buildTokenMap(built)]
                    ELSE NoTokenMap]

\* what the caller holds when construction threw: no chain
NoChain(error) ==
  [status |-> error, order |-> 0, model |-> <<>>, tokenMap |-> NoTokenMap]

\* mutant of invalidOrder: no order is refused
invalidOrderNever(order) == FALSE

\* buildModel: if (order < 0) throw new Error('Invalid Markov chain order...')
invalidOrder(order) == order < 0

\* new Chain({ corpus, order, useTokenMap }): the chain, or the error thrown.
\* buildModel(corpus, this) reads this.initialState for its parameter before
\* it tests the order: Array(1 + order) throws a RangeError below -1.
construct(corpus, order, useTokenMap) ==
  IF 1 + order < 0 THEN NoChain("RangeError") @@ [seeded |-> 0]
  ELSE IF invalidOrder(order) THEN NoChain("Error") @@ [seeded |-> 0]
  ELSE newChain(corpus, order, useTokenMap)
         @@ [status |-> "ok", seeded |-> Len(corpus)]

(***************************************************************************)
(* lib/util.js: sampling.  Math.random() is an input of the caller: a      *)
(* weighted pick gets the integer part `draw` of Math.random() * total     *)
(* (the sums are integers, so x < a[mid] is decided by the integer part).  *)
(***************************************************************************)
last(arr) == At(arr, Len(arr) - 1)

\* mutant of bisect: the left insertion point (x <= a[mid] goes left)
RECURSIVE bisectLeft(_, _, _, _)
bisectLeft(a, x, lo, hi) ==
  IF lo < hi
  THEN LET mid == (lo + hi) \div 2
       IN  IF x <= a[mid + 1] THEN bisectLeft(a, x, lo, mid)
           ELSE bisectLeft(a, x, mid + 1, hi)
  ELSE lo

RECURSIVE bisect(_, _, _, _)
bisect(a, x, lo, hi) ==
  IF lo < hi
  THEN LET mid == (lo + hi) \div 2
       IN  IF x < a[mid + 1] THEN bisect(a, x, lo, mid)
           ELSE bisect(a, x, mid + 1, hi)
  ELSE lo

RECURSIVE distributionSum(_, _)
distributionSum(weights, n) ==
  IF n = 0 THEN <<>>
  ELSE LET result == distributionSum(weights, n - 1)
           sum == IF result = <<>> THEN 0 ELSE result[Len(result)]
       IN  Append(result, sum + weights[n])

Total(weights) ==
  IF weights = <<>> THEN 0
  ELSE distributionSum(weights, Len(weights))[Len(weights)]

\* the values Math.floor(Math.random() * total) can take
Draws(total) == IF total > 0 THEN 0..(total - 1) ELSE {0}

weightedPick(weights, draw) ==
  LET sums == distributionSum(weights, Len(weights))
  IN  bisect(sums, draw, 0, Len(sums))

\* randomInt(max) over every value of Math.random()
randomInt(max) == IF max > 0 THEN 0..(max - 1) ELSE {0}

\* randomElement(arr): every element it can return
randomElement(arr) == {At(arr, i) : i \in randomInt(Len(arr))}

\* randomElement(arr, weights): every element it can return
randomElementWeighted(arr, weights) ==
  IF Len(weights) = Len(arr)
  THEN {At(arr, weightedPick(weights, d)) : d \in Draws(Total(weights))}
  ELSE randomElement(arr)

(***************************************************************************)
(* Chain._step and Chain._walk                                             *)
(***************************************************************************)
\* mutant of stopToken: the two directions compare to each other's sentinel
stopTokenSwapped(forward) == IF forward THEN BEGIN ELSE END

stopToken(forward) == IF forward THEN END ELSE BEGIN

\* mutant of step: the tables of the two directions are swapped
stepSwapsTables(model, fromState, forward) ==
  LET index == IF forward THEN 2 ELSE 1
      failToken == IF forward THEN END ELSE BEGIN
  IN  IF ~modelHas(model, fromState) THEN {failToken}
      ELSE LET stateArr == modelGet(model, fromState)
               choices == MapKeys(stateArr[index])
               weights == MapValues(stateArr[index])
           IN  randomElementWeighted(choices, weights)

\* every token _step(fromState, forward) can return
step(model, fromState, forward) ==
  LET index == IF forward THEN 1 ELSE 2
      failToken == IF forward THEN END ELSE BEGIN
  IN  IF ~modelHas(model, fromState) THEN {failToken}
      ELSE LET stateArr == modelGet(model, fromState)
               choices == MapKeys(stateArr[index])
               weights == MapValues(stateArr[index])
           IN  randomElementWeighted(choices, weights)

\* mutant of yielded: an object token is yielded as it is
yieldedKeepsEncoding(token) == token

\* the token _walk yields for a step: an object token is parsed back
yielded(token) == IF isObjectToken(token) THEN JSONParse(token.v) ELSE token

\* mutant of slide: the window grows instead of sliding
slideGrows(state, token, forward) ==
  IF forward THEN state \o <<token>> ELSE <<token>> \o state

\* the state of _walk after it yielded token
slide(state, token, forward) ==
  IF forward THEN Slice(state, 1, Len(state)) \o <<token>>
  ELSE <<token>> \o Slice(state, 0, Len(state) - 1)

\* mutant of walk: the stop token is yielded before the walk ends
walkYieldsStop(model, state, forward, n) == {<<stopToken(forward)>>}

\* [...this._walk(fromState, forward)]: every complete walk of at most n
\* yielded tokens
RECURSIVE walk(_, _, _, _)
walk(model, state, forward, n) ==
  UNION { IF s = stopToken(forward) THEN {<<>>}
          ELSE IF n = 0 THEN {}
          ELSE {<<yielded(s)>> \o w :
                  w \in walk(model, slide(state, yielded(s), forward),
                             forward, n - 1)}
          : s \in step(model, state, forward) }

\* mutant of Reverse: the array is left in the order it was drawn
ReverseKeepsOrder(seq) == seq

\* Array.prototype.reverse
Reverse(seq) == [i \in 1..Len(seq) |-> seq[Len(seq) + 1 - i]]

(***************************************************************************)
(* Chain._genStateFrom and Chain.run                                       *)
(***************************************************************************)
\* the windows pushed by the loop of _genStateFrom
tuples(tokens, order) ==
  LET items == getInitialState(order) \o tokens \o <<END>>
  IN  [i \in 1..(Len(tokens) + 1) |-> Slice(items, i - 1, i + order)]

\* mutant of startsOf: the first window is a candidate too
startsOfEveryWindow(chain, tokens) ==
  LET all == tuples(tokens, chain.order)
      HasState(t) == modelHas(chain.model, t)
  IN  SelectSeq(all, HasState)

\* const starts = tuples.slice(1).filter((t) => model.has(t))
startsOf(chain, tokens) ==
  LET all == tuples(tokens, chain.order)
      HasState(t) == modelHas(chain.model, t)
  IN  SelectSeq(Slice(all, 1, Len(all)), HasState)

\* every [state, via] _genStateFrom(tokens, useTokenMap) can return; via
\* names the branch that produced the state
genStateFrom(chain, tokens, useTokenMap) ==
  LET starts == startsOf(chain, tokens)
      InTokenMap(t) == MapHas(chain.tokenMap.map, t)
      choices == SelectSeq(tokens, InTokenMap)
      first == IF starts = <<>> THEN {}
               ELSE {[state |-> r, via |-> "window"] : r \in randomElement(starts)}
      second == IF /\ starts = <<>>
                   /\ useTokenMap
                   /\ Len(tokens) > 0
                   /\ chain.tokenMap.defined
                   /\ Len(choices) > 0
                THEN {[state |-> r, via |-> "tokenMap"] :
                        r \in UNION {MapGet(chain.tokenMap.map, token) :
                                       token \in randomElement(choices)}}
                ELSE {}
  IN  IF first \cup second = {}
      THEN {[state |-> getInitialState(chain.order), via |-> "initial"]}
      ELSE first \cup second

NotBegin(t) == t # BEGIN

\* mutant of refuses: the flag is read the wrong way round
refusesWhenAllowed(tokens, runMissingTokens, hasSteps) ==
  runMissingTokens /\ Len(tokens) > 0 /\ ~hasSteps

\* if (!runMissingTokens && tokens.length > 0 && !hasSteps)
refuses(tokens, runMissingTokens, hasSteps) ==
  ~runMissingTokens /\ Len(tokens) > 0 /\ ~hasSteps

\* mutant of rootTokens: the BEGIN tokens of the state are kept
rootTokensKeepsBegin(startState, hasSteps) ==
  IF hasSteps THEN startState ELSE <<>>

\* the root tokens of the result
rootTokens(startState, hasSteps) ==
  IF hasSteps THEN SelectSeq(startState, NotBegin) ELSE <<>>

\* every [start, via, result] run(options) can return, walks of at most
\* MaxSteps tokens
run(chain, tokens, backSearch, useTokenMap, runMissingTokens) ==
  UNION {
    LET startState == g.state
        hasSteps0 == startState # getInitialState(chain.order)
    IN  IF refuses(tokens, runMissingTokens, hasSteps0)
        THEN {[start |-> startState, via |-> g.via, walked |-> FALSE,
               result |-> <<<<>>, <<>>, <<>>>>]}
        ELSE {LET hasSteps == \/ hasSteps0
                              \/ Len(forwardSteps) > 0
                              \/ (backSearch /\ Len(back) > 0)
              IN  [start |-> startState, via |-> g.via, walked |-> TRUE,
                   result |-> <<IF backSearch THEN Reverse(back) ELSE <<>>,
                                rootTokens(startState, hasSteps),
                                forwardSteps>>]
              : forwardSteps \in walk(chain.model, startState, TRUE, MaxSteps),
                back \in IF backSearch
                         THEN walk(chain.model, startState, FALSE, MaxSteps)
                         ELSE {<<>>}}
    : g \in genStateFrom(chain, tokens, useTokenMap) }

(***************************************************************************)
(* Chain.toJSON and Chain.fromJSON.  JSON.stringify followed by JSON.parse *)
(* gives back the strings, finite numbers and booleans of the array that   *)
(* toJSON returns, so the text is modelled by that array.                  *)
(***************************************************************************)
symbolRegexTest(s) == s \in {"Symbol(@@BEGIN)", "Symbol(@@END)"}

objectRegexTest(s) ==
  /\ Len(s) >= 8
  /\ SubSeq(s, 1, 7) = "Object("
  /\ SubSeq(s, Len(s), Len(s)) = ")"

objectRegexGroup(s) == SubSeq(s, 8, Len(s) - 1)

stringifyToken(token) ==
  IF token = BEGIN THEN Str("Symbol(@@BEGIN)")
  ELSE IF token = END THEN Str("Symbol(@@END)")
  ELSE IF isObjectToken(token) THEN Str("Object(" \o token.v \o ")")
  ELSE IF token.k = "string" /\ (symbolRegexTest(token.v) \/ objectRegexTest(token.v))
  THEN Str("\"" \o token.v \o "\"")
  ELSE token

parseTokenString(string) ==
  IF string = Str("Symbol(@@BEGIN)") THEN BEGIN
  ELSE IF string = Str("Symbol(@@END)") THEN END
  ELSE IF objectRegexTest(string.v) THEN JSONParse(objectRegexGroup(string.v))
  ELSE string

stringifyPairs(map) ==
  [i \in 1..Len(map) |-> <<stringifyToken(map[i].key), map[i].val>>]

toJSON(model) ==
  [i \in 1..Len(model) |->
     <<[j \in 1..Len(model[i].key) |-> stringifyToken(model[i].key[j])],
       <<stringifyPairs(model[i].val[1]), stringifyPairs(model[i].val[2])>>>>]

RECURSIVE parsePairs(_, _, _)
parsePairs(map, list, n) ==
  IF n > Len(list) THEN map
  ELSE parsePairs(weightSet(map, parseTokenString(list[n][1]), list[n][2]),
                  list, n + 1)

\* the order fromJSON infers, and whether a record contradicts it
inferredOrder(json) == Len(json[1][1]) - 1

\* mutant of inconsistent: no record is compared with the first
inconsistentNever(json) == FALSE

inconsistent(json) ==
  \E i \in 2..Len(json) : Len(json[i][1]) # inferredOrder(json) + 1

RECURSIVE parseStates(_, _, _)
parseStates(model, json, n) ==
  IF n > Len(json) THEN model
  ELSE LET stateTuple == [j \in 1..Len(json[n][1]) |->
                            parseTokenString(json[n][1][j])]
           nextMap == parsePairs(<<>>, json[n][2][1], 1)
           prevMap == parsePairs(<<>>, json[n][2][2], 1)
       IN  parseStates(modelSet(model, stateTuple, <<nextMap, prevMap>>),
                       json, n + 1)

\* the first record whose state length contradicts the inferred order
firstInconsistent(json) ==
  CHOOSE i \in 2..Len(json) :
    /\ Len(json[i][1]) # inferredOrder(json) + 1
    /\ \A j \in 2..(i - 1) : Len(json[j][1]) = inferredOrder(json) + 1

\* throw new Error('Inconsistent Markov chain order. Expected ${order} but
\* got ${curStateSize - 1} (${state}).'): no chain is returned
orderError(json) ==
  [status |-> "Error",
   expected |-> inferredOrder(json),
   actual |-> Len(json[firstInconsistent(json)][1]) - 1,
   state |-> json[firstInconsistent(json)][1],
   order |-> 0, model |-> <<>>, tokenMap |-> NoTokenMap]

\* Chain.fromJSON(jsonChain, options): the chain, or the error thrown
fromJSON(json, useTokenMap) ==
  IF Len(json) > 0 /\ inconsistent(json) THEN orderError(json)
  ELSE LET parsed == parseStates(<<>>, json, 1)
       IN  IF Len(parsed) = 0
           THEN NoChain("TypeError")  \* model.keys().next().value is undefined
           ELSE LET o == Len(parsed[1].key) - 1
                IN  [status |-> "ok",
                     order |-> o,
                     model |-> parsed,
                     tokenMap |-> IF useTokenMap /\ o > 0
                                  THEN [defined |-> TRUE,
                                        map |-> buildTokenMap(parsed)]
                                  ELSE NoTokenMap]

(***************************************************************************)
(* State.                                                                  *)
(***************************************************************************)
VARIABLES
  vocab,      \* the alphabet the caller draws tokens from
  order,      \* internal(this).order
  model,      \* internal(this).model, the state space
  tokenMap,   \* internal(this).tokenMap
  corpus,     \* history: every run seeded so far, in order
  seeds,      \* number of runs seeded after construction
  out,        \* what the last call of run, toJSON or fromJSON returned
  gen,        \* the generator of a lazy walk the caller holds
  gen2        \* the generator of a second lazy walk the caller holds

vars == <<vocab, order, model, tokenMap, corpus, seeds, out, gen, gen2>>

Runs(V) == SeqsUpTo(V, MaxRunLen)

initialState == getInitialState(order)

this == [order |-> order, model |-> model, tokenMap |-> tokenMap]

NoOutput == [op |-> "none"]

NoWalk == [status |-> "none"]

InitFrom(Vs) ==
  \E V \in Vs, o \in 0..MaxOrder, useTokenMap \in BOOLEAN :
    \E c \in SeqsUpTo(Runs(V), MaxCorpus) :
      LET chain == newChain(c, o, useTokenMap)
      IN  /\ vocab = V
          /\ order = chain.order
          /\ model = chain.model
          /\ tokenMap = chain.tokenMap
          /\ corpus = c
          /\ seeds = 0
          /\ out = NoOutput
          /\ gen = NoWalk
          /\ gen2 = NoWalk

Init == InitFrom(Vocabularies)

InitSeed == InitFrom(SeedVocabularies)

InitComposite == InitFrom(CompositeVocabularies)

\* Chain.seed(run, chain), or Chain.seed(run, { model, initialState, order })
\* when the caller leaves the token map out.  A result computed before
\* describes the chain as it was: the caller drops it.
Seed(r, withTokenMap) ==
  /\ seeds < MaxSeeds
  /\ LET given == [model |-> model,
                   tokenMap |-> IF withTokenMap THEN tokenMap ELSE NoTokenMap]
         after == seed(r, given, initialState, order)
     IN  /\ model' = after.model
         /\ tokenMap' = IF withTokenMap THEN after.tokenMap ELSE tokenMap
  /\ corpus' = Append(corpus, r)
  /\ seeds' = seeds + 1
  /\ out' = NoOutput
  /\ UNCHANGED <<vocab, order, gen, gen2>>

\* chain.run({ tokens, backSearch, useTokenMap, runMissingTokens })
Run(tokens, backSearch, useTokenMap, runMissingTokens) ==
  /\ gen = NoWalk
  /\ out = NoOutput
  /\ \E r \in run(this, tokens, backSearch, useTokenMap, runMissingTokens) :
       out' = [op |-> "run", tokens |-> tokens, backSearch |-> backSearch,
               useTokenMap |-> useTokenMap,
               runMissingTokens |-> runMissingTokens,
               start |-> r.start, via |-> r.via, walked |-> r.walked,
               result |-> r.result]
  /\ UNCHANGED <<vocab, order, model, tokenMap, corpus, seeds, gen, gen2>>

\* JSON.stringify(chain)
ToJSON ==
  /\ gen = NoWalk
  /\ out = NoOutput
  /\ out' = [op |-> "toJSON", json |-> toJSON(model)]
  /\ UNCHANGED <<vocab, order, model, tokenMap, corpus, seeds, gen, gen2>>

\* Chain.fromJSON(serialised, { useTokenMap }) on the text of the last export
FromJSON(useTokenMap) ==
  /\ out.op = "toJSON"
  /\ out' = [op |-> "fromJSON", json |-> out.json,
             useTokenMap |-> useTokenMap,
             generated |-> fromJSON(out.json, useTokenMap)]
  /\ UNCHANGED <<vocab, order, model, tokenMap, corpus, seeds, gen, gen2>>

\* serialised chains that did not come out of toJSON: up to MaxRecords
\* records whose states have up to MaxStateLen tokens
ForeignStates ==
  SeqsUpTo({Str("a"), Str("Symbol(@@BEGIN)")}, MaxStateLen)

ForeignRecord(state) ==
  <<state, <<(<<(<<Str("a"), 1>>)>>), (<<(<<Str("Symbol(@@BEGIN)"), 1>>)>>)>>>>

ForeignJSON == SeqsUpTo({ForeignRecord(s) : s \in ForeignStates}, MaxRecords)

\* Chain.fromJSON(text, { useTokenMap }) on a text the caller wrote
Import(json, useTokenMap) ==
  /\ out = NoOutput
  /\ out' = [op |-> "import", json |-> json, useTokenMap |-> useTokenMap,
             generated |-> fromJSON(json, useTokenMap)]
  /\ UNCHANGED <<vocab, order, model, tokenMap, corpus, seeds, gen, gen2>>

\* new Chain({ corpus, order, useTokenMap }) with any order, negative or not
New(c, o, useTokenMap) ==
  /\ out = NoOutput
  /\ out' = [op |-> "new", corpus |-> c, order |-> o,
             useTokenMap |-> useTokenMap,
             generated |-> construct(c, o, useTokenMap)]
  /\ UNCHANGED <<vocab, order, model, tokenMap, corpus, seeds, gen, gen2>>

\* the states a caller starts a walk from: none given, a key of the state
\* space, or a tuple of its own
NoState == <<>>

StartStates ==
  {NoState} \cup KeySet(model)
    \cup {[i \in 1..(order + 1) |-> t] : t \in vocab}

\* Map.prototype.get, called through the proxy: a mutant in which reading
\* a state the map does not hold inserts it with empty tables
modelAfterGetInserts(m, state) ==
  IF modelHas(m, state) THEN m
  ELSE modelSet(m, state, <<<<>>, <<>>>>)

\* the state space after this.model.get(state): get writes nothing
modelAfterGet(m, state) == m

\* chain.walkForward(fromState) or chain.walkBackward(fromState): the
\* generator is created suspended at its start
walkStart(fromState, forward) ==
  [status |-> "suspended", forward |-> forward,
   state |-> IF fromState = NoState THEN initialState ELSE fromState,
   steps |-> <<>>, drawnFrom |-> <<>>, drawn |-> Undefined]

\* generator.next(): every generator one turn of the loop of _walk can leave
walkNext(g) ==
  UNION {
    IF s = stopToken(g.forward) THEN {[g EXCEPT !.status = "done"]}
    ELSE IF Len(g.steps) < MaxSteps
    THEN {[g EXCEPT !.state = slide(g.state, yielded(s), g.forward),
                    !.steps = Append(g.steps, yielded(s)),
                    !.drawnFrom = g.state,
                    !.drawn = s]}
    ELSE {}
    : s \in step(model, g.state, g.forward) }

WalkStart(fromState, forward) ==
  /\ gen = NoWalk
  /\ out = NoOutput
  /\ gen' = walkStart(fromState, forward)
  /\ UNCHANGED <<vocab, order, model, tokenMap, corpus, seeds, out, gen2>>

WalkNext ==
  /\ gen.status = "suspended"
  /\ gen' \in walkNext(gen)
  /\ model' = modelAfterGet(model, gen.state)
  /\ UNCHANGED <<vocab, order, tokenMap, corpus, seeds, out, gen2>>

\* the caller stops iterating and lets go of the generator
WalkDrop ==
  /\ gen # NoWalk
  /\ gen' = NoWalk
  /\ UNCHANGED <<vocab, order, model, tokenMap, corpus, seeds, out, gen2>>

\* a second walk, from the initial state, while the first is suspended
Walk2Start(forward) ==
  /\ gen # NoWalk
  /\ gen2 = NoWalk
  /\ gen2' = walkStart(NoState, forward)
  /\ UNCHANGED <<vocab, order, model, tokenMap, corpus, seeds, out, gen>>

Walk2Next ==
  /\ gen2.status = "suspended"
  /\ gen2' \in walkNext(gen2)
  /\ model' = modelAfterGet(model, gen2.state)
  /\ UNCHANGED <<vocab, order, tokenMap, corpus, seeds, out, gen>>

Walk2Drop ==
  /\ gen2 # NoWalk
  /\ gen2' = NoWalk
  /\ UNCHANGED <<vocab, order, model, tokenMap, corpus, seeds, out, gen>>

\* chain.run(options) between two pulls of a walk
RunWhileWalking(tokens, backSearch) ==
  /\ gen # NoWalk
  /\ \E r \in run(this, tokens, backSearch, TRUE, TRUE) :
       /\ out' = [op |-> "run", tokens |-> tokens, backSearch |-> backSearch,
                  useTokenMap |-> TRUE, runMissingTokens |-> TRUE,
                  start |-> r.start, via |-> r.via, walked |-> r.walked,
                  result |-> r.result]
       /\ model' = modelAfterGet(model, r.start)
  /\ UNCHANGED <<vocab, order, tokenMap, corpus, seeds, gen, gen2>>

\* JSON.stringify(chain) between two pulls of a walk
ToJSONWhileWalking ==
  /\ gen # NoWalk
  /\ out' = [op |-> "toJSON", json |-> toJSON(model)]
  /\ UNCHANGED <<vocab, order, model, tokenMap, corpus, seeds, gen, gen2>>

Next ==
  \/ \E r \in Runs(vocab), withTokenMap \in BOOLEAN : Seed(r, withTokenMap)
  \/ \E tokens \in SeqsUpTo(vocab, MaxTokens),
        backSearch, useTokenMap, runMissingTokens \in BOOLEAN :
       Run(tokens, backSearch, useTokenMap, runMissingTokens)
  \/ ToJSON
  \/ \E useTokenMap \in BOOLEAN : FromJSON(useTokenMap)
  \/ \E fromState \in StartStates, forward \in BOOLEAN :
       WalkStart(fromState, forward)
  \/ WalkNext
  \/ WalkDrop

Spec == Init /\ [][Next]_vars

\* the behaviours that seed, export and import, over the wider alphabets
NextSeed ==
  \/ \E r \in Runs(vocab), withTokenMap \in BOOLEAN : Seed(r, withTokenMap)
  \/ ToJSON
  \/ \E useTokenMap \in BOOLEAN : FromJSON(useTokenMap)

SpecSeed == InitSeed /\ [][NextSeed]_vars

\* the behaviours of readers: two lazy walks, runs and exports interleaved,
\* with no seeding in between
NextReaders ==
  \/ \E fromState \in StartStates, forward \in BOOLEAN :
       WalkStart(fromState, forward)
  \/ WalkNext
  \/ WalkDrop
  \/ \E forward \in BOOLEAN : Walk2Start(forward)
  \/ Walk2Next
  \/ Walk2Drop
  \/ \E tokens \in SeqsUpTo(vocab, 1), backSearch \in BOOLEAN :
       RunWhileWalking(tokens, backSearch)
  \/ ToJSONWhileWalking

SpecReaders == Init /\ [][NextReaders]_vars

\* the behaviours in which every seed operation is given the token map of
\* the chain: Chain.seed(run, chain)
NextTokenMap ==
  \/ \E r \in Runs(vocab) : Seed(r, TRUE)
  \/ ToJSON
  \/ \E useTokenMap \in BOOLEAN : FromJSON(useTokenMap)

SpecTokenMap == Init /\ [][NextTokenMap]_vars

\* chains seeded with a run long enough to hold a cycle of states none of
\* which has the stop sentinel among its successors
InitCycle ==
  \E V \in Vocabularies, o \in 0..MaxOrder :
    \E c \in SeqsUpTo(SeqsUpTo(V, MaxCycleRun), MaxCorpus) :
      LET chain == newChain(c, o, FALSE)
      IN  /\ vocab = V
          /\ order = chain.order
          /\ model = chain.model
          /\ tokenMap = chain.tokenMap
          /\ corpus = c
          /\ seeds = 0
          /\ out = NoOutput
          /\ gen = NoWalk
          /\ gen2 = NoWalk

\* generator.next() when the caller keeps no list of what was yielded:
\* every generator one turn of the loop of _walk can leave
walkTurn(g) ==
  { IF s = stopToken(g.forward)
    THEN [g EXCEPT !.status = "done", !.drawnFrom = g.state, !.drawn = s]
    ELSE [g EXCEPT !.state = slide(g.state, yielded(s), g.forward),
                   !.drawnFrom = g.state,
                   !.drawn = s]
    : s \in step(model, g.state, g.forward) }

\* one pull of a loop that consumes the walk: for (const t of walk) { }.
\* Every pull returns a new iterator result; fresh tells it from the one
\* the pull before returned.
WalkTurn ==
  /\ gen.status = "suspended"
  /\ gen' \in walkTurn(gen)
  /\ model' = modelAfterGet(model, gen.state)
  /\ out' = [op |-> "next",
             fresh |-> IF out = NoOutput THEN 0 ELSE 1 - out.fresh]
  /\ UNCHANGED <<vocab, order, tokenMap, corpus, seeds, gen2>>

\* the loop ends with the generator
WalkReturn ==
  /\ gen.status = "done"
  /\ gen' = NoWalk
  /\ out' = NoOutput
  /\ UNCHANGED <<vocab, order, model, tokenMap, corpus, seeds, gen2>>

\* the states one draw away from state s in direction forward
Successors(s, forward) ==
  {slide(s, yielded(t), forward) :
     t \in step(model, s, forward) \ {stopToken(forward)}}

\* the stop sentinel can be drawn at s or within n draws after s
RECURSIVE CanStop(_, _, _)
CanStop(s, forward, n) ==
  \/ stopToken(forward) \in step(model, s, forward)
  \/ /\ n > 0
     /\ \E u \in Successors(s, forward) : CanStop(u, forward, n - 1)

\* the least number of draws after which the stop sentinel can be drawn
Distance(s, forward) ==
  IF \E n \in 0..Len(model) : CanStop(s, forward, n)
  THEN CHOOSE n \in 0..Len(model) :
         /\ CanStop(s, forward, n)
         /\ n = 0 \/ ~CanStop(s, forward, n - 1)
  ELSE Len(model) + 1

\* a walk is suspended d draws away from the stop sentinel
Away(d) ==
  /\ gen.status = "suspended"
  /\ Distance(gen.state, gen.forward) = d

\* the pull, at a state d draws away from the stop sentinel, in which
\* weightedPick chooses a successor that leads nearer to it
Chosen(d) ==
  /\ Away(d)
  /\ gen' \in walkTurn(gen)
  /\ IF d = 0 THEN gen'.status = "done"
     ELSE Distance(gen'.state, gen.forward) < d

NextCycle ==
  \/ \E fromState \in StartStates, forward \in BOOLEAN :
       WalkStart(fromState, forward)
  \/ WalkTurn
  \/ WalkReturn

\* the caller keeps pulling, and sampling is fair: a successor of positive
\* weight of a state the walk is at infinitely often is chosen in the end.
\* Of that, the behaviours keep what finitely many states make of it: at
\* every distance the walk is at infinitely often, a successor that leads
\* nearer is chosen infinitely often.  This is strong fairness of
\* Chosen(d), which is enabled exactly when Away(d) holds.
FairSampling ==
  /\ WF_vars(WalkTurn)
  /\ \A d \in 0..(MaxCycleRun + 1) :
       []<>Away(d) => []<><<Chosen(d)>>_vars

SpecCycle == InitCycle /\ [][NextCycle]_vars /\ FairSampling

\* chains seeded with runs long enough for a result of order 1 to hold
\* tokens walked backward, the tokens of the start and tokens walked forward
InitJoin ==
  \E V \in Vocabularies, o \in 0..MaxOrder, useTokenMap \in BOOLEAN :
    \E c \in SeqsUpTo(SeqsUpTo(V, MaxCycleRun), MaxCorpus) :
      LET chain == newChain(c, o, useTokenMap)
      IN  /\ vocab = V
          /\ order = chain.order
          /\ model = chain.model
          /\ tokenMap = chain.tokenMap
          /\ corpus = c
          /\ seeds = 0
          /\ out = NoOutput
          /\ gen = NoWalk
          /\ gen2 = NoWalk

NextJoin ==
  \/ \E r \in Runs(vocab) : Seed(r, TRUE)
  \/ \E tokens \in SeqsUpTo(vocab, MaxTokens),
        backSearch, useTokenMap, runMissingTokens \in BOOLEAN :
       Run(tokens, backSearch, useTokenMap, runMissingTokens)

SpecJoin == InitJoin /\ [][NextJoin]_vars

\* chains restored by Chain.fromJSON from texts of order 0 in which a state
\* may have an empty list of successors or of predecessors
SparseRecords ==
  {<<(<<s>>), <<n, p>>>> :
     s \in {Str("a"), Str("Symbol(@@BEGIN)")},
     n \in {<<>>, <<(<<Str("a"), 1>>)>>, <<(<<Str("Symbol(@@END)"), 1>>)>>},
     p \in {<<>>, <<(<<Str("Symbol(@@BEGIN)"), 1>>)>>}}

SparseJSON == SeqsUpTo(SparseRecords, MaxRecords - 1) \ {<<>>}

InitSparse ==
  \E json \in SparseJSON :
    LET chain == fromJSON(json, FALSE)
    IN  /\ vocab = {Str("a"), Str("b")}
        /\ order = chain.order
        /\ model = chain.model
        /\ tokenMap = chain.tokenMap
        /\ corpus = <<>>
        /\ seeds = 0
        /\ out = NoOutput
        /\ gen = NoWalk
        /\ gen2 = NoWalk

\* the behaviours that walk a restored chain
NextWalks ==
  \/ \E fromState \in StartStates, forward \in BOOLEAN :
       WalkStart(fromState, forward)
  \/ WalkNext
  \/ WalkDrop

SpecSparse == InitSparse /\ [][NextWalks]_vars

\* util.weightedPick(weights) on lists of up to MaxWeights weights 0..MaxWeight
\* with a positive total, for every integer part of Math.random() * total
WeightLists ==
  {w \in SeqsUpTo(0..MaxWeight, MaxWeights) : w # <<>> /\ Total(w) > 0}

InitPick ==
  LET chain == newChain(<<>>, 0, FALSE)
  IN  /\ vocab = {Str("a"), Str("b")}
      /\ order = chain.order
      /\ model = chain.model
      /\ tokenMap = chain.tokenMap
      /\ corpus = <<>>
      /\ seeds = 0
      /\ out = NoOutput
      /\ gen = NoWalk
      /\ gen2 = NoWalk

Pick(weights, draw) ==
  /\ out = NoOutput
  /\ out' = [op |-> "weightedPick", weights |-> weights, draw |-> draw,
             index |-> weightedPick(weights, draw)]
  /\ UNCHANGED <<vocab, order, model, tokenMap, corpus, seeds, gen, gen2>>

NextPick ==
  \E weights \in WeightLists :
    \E draw \in Draws(Total(weights)) : Pick(weights, draw)

SpecPick == InitPick /\ [][NextPick]_vars

\* the behaviours that seed, export and import composite tokens
SpecComposite == InitComposite /\ [][NextSeed]_vars

\* the behaviours that make chains: from options, from an export, from a
\* text of the caller
NextImport ==
  \/ \E c \in SeqsUpTo(Runs(vocab), MaxCorpus),
        o \in (0 - MaxNegative)..MaxOrder, useTokenMap \in BOOLEAN :
       New(c, o, useTokenMap)
  \/ \E json \in ForeignJSON, useTokenMap \in BOOLEAN :
       Import(json, useTokenMap)
  \/ ToJSON
  \/ \E useTokenMap \in BOOLEAN : FromJSON(useTokenMap)

SpecImport == Init /\ [][NextImport]_vars

(***************************************************************************)
(* What the seeded runs contain, read off the history of runs: the         *)
(* reference the tables are compared with.  Tokens are compared by         *)
(* structure: two instances of one composite value are the same token.     *)
(***************************************************************************)
Canon(t) == IF t.k = "object" THEN ObjectToken(t.v) ELSE t

CanonState(s) == [i \in 1..Len(s) |-> Canon(s[i])]

Padded(r) == initialState \o r \o <<END>>

\* <<n, i>>: index i of the n-th seeded run, 0 <= i <= len(run)
Positions ==
  UNION {{<<n, i>> : i \in 0..Len(corpus[n])} : n \in 1..Len(corpus)}

WindowAt(p) ==
  CanonState(SubSeq(Padded(corpus[p[1]]), p[2] + 1, p[2] + order + 1))

SuccessorAt(p) == Canon(Padded(corpus[p[1]])[p[2] + order + 2])

PredecessorAt(p) ==
  IF p[2] = 0 THEN BEGIN ELSE Canon(Padded(corpus[p[1]])[p[2]])

Observed(s) == Cardinality({p \in Positions : WindowAt(p) = s})

ObservedNext(s, t) ==
  Cardinality({p \in Positions : WindowAt(p) = s /\ SuccessorAt(p) = t})

ObservedPrev(s, t) ==
  Cardinality({p \in Positions : WindowAt(p) = s /\ PredecessorAt(p) = t})

\* the count a table of the state space holds, 0 when there is no entry
TableCount(m, s, index, t) ==
  IF MapHas(m, s) /\ MapHas(MapGet(m, s)[index], t)
  THEN MapGet(MapGet(m, s)[index], t)
  ELSE 0

RECURSIVE SumOf(_)
SumOf(counts) ==
  IF counts = <<>> THEN 0 ELSE Head(counts) + SumOf(Tail(counts))

TableSum(m, s, index) ==
  IF MapHas(m, s) THEN SumOf(MapValues(MapGet(m, s)[index])) ELSE 0

\* a Map holds a key once
UniqueKeys(map) ==
  \A i, j \in 1..Len(map) : map[i].key = map[j].key => i = j

WellFormed(m) ==
  /\ UniqueKeys(m)
  /\ \A i \in 1..Len(m) : UniqueKeys(m[i].val[1]) /\ UniqueKeys(m[i].val[2])

WindowsAndKeys == KeySet(model) \cup {WindowAt(p) : p \in Positions}

TokensAndKeys ==
  {BEGIN, END} \cup {Canon(t) : t \in vocab}
    \cup UNION {KeySet(model[i].val[1]) \cup KeySet(model[i].val[2]) :
                  i \in 1..Len(model)}

\* the mapping a Map stands for
Mapping(map) == {<<map[i].key, map[i].val>> : i \in 1..Len(map)}

StateSpaceMapping(m) ==
  {<<m[i].key, Mapping(m[i].val[1]), Mapping(m[i].val[2])>> : i \in 1..Len(m)}

(***************************************************************************)
(* C1.  Round trip: Chain.fromJSON(JSON.stringify(chain), options) yields  *)
(* a chain of the same order, with the same states and the same nextTable  *)
(* and prevTable counts, and, when the token map is requested and the      *)
(* order is positive, the token map the constructor built for the          *)
(* original.  The empty corpus is included.                                *)
(***************************************************************************)
C1_RoundTrip ==
  out.op = "fromJSON" =>
    /\ out.generated.status = "ok"
    /\ out.generated.order = order
    /\ StateSpaceMapping(out.generated.model) = StateSpaceMapping(model)
    /\ (seeds = 0 /\ tokenMap.defined /\ out.useTokenMap) =>
         /\ out.generated.tokenMap.defined
         /\ Mapping(out.generated.tokenMap.map) = Mapping(tokenMap.map)

(***************************************************************************)
(* C2.  For every window s and token t, prevTable[s][t] is the number of   *)
(* observed positions i where the window is s and items[i-1] is t (BEGIN   *)
(* when i = 0), whatever string, number or boolean the run contains.       *)
(***************************************************************************)
C2_PrevCounts ==
  \A s \in WindowsAndKeys, t \in TokensAndKeys :
    TableCount(model, s, 2, t) = ObservedPrev(s, t)

(***************************************************************************)
(* C5.  For every state of the state space the sum of its nextTable counts *)
(* and the sum of its prevTable counts both equal the number of times the  *)
(* window was observed in the seeded runs; a window that was observed is   *)
(* a state.                                                                *)
(***************************************************************************)
C5_SumsAreObservations ==
  /\ WellFormed(model)
  /\ \A s \in WindowsAndKeys :
       /\ TableSum(model, s, 1) = Observed(s)
       /\ TableSum(model, s, 2) = Observed(s)

\* a state seen three times, with two successors and two predecessors, one
\* of them more than once
C5_Witness ==
  \E i \in 1..Len(model) :
    /\ Observed(model[i].key) >= 3
    /\ Len(model[i].val[1]) >= 2
    /\ Len(model[i].val[2]) >= 2

(***************************************************************************)
(* C6.  For every window s and token t, nextTable[s][t] is the number of   *)
(* observed positions i where the window items[i..i+order] is s and        *)
(* items[i+order+1] is t; END is the successor once per run, at the last   *)
(* index.                                                                  *)
(***************************************************************************)
C6_NextCounts ==
  /\ WellFormed(model)
  /\ \A s \in WindowsAndKeys, t \in TokensAndKeys :
       TableCount(model, s, 1, t) = ObservedNext(s, t)
  /\ \A p \in Positions : SuccessorAt(p) = END <=> p[2] = Len(corpus[p[1]])
  /\ SumOf([i \in 1..Len(model) |-> TableCount(model, model[i].key, 1, END)])
       = Len(corpus)

\* order 0 and the corpus [['a', 'b']]: ('a') -> {b: 1}, ('b') -> {END: 1}
C6_Witness ==
  /\ order = 0
  /\ corpus = <<<<Str("a"), Str("b")>>>>
  /\ TableCount(model, <<BEGIN>>, 1, Str("a")) = 1
  /\ TableCount(model, <<Str("a")>>, 1, Str("b")) = 1
  /\ TableCount(model, <<Str("b")>>, 1, END) = 1
  /\ Len(model) = 3

(***************************************************************************)
(* C3.  In the result of run, rootTokens is non-empty only if backSteps or *)
(* forwardSteps is non-empty.                                              *)
(***************************************************************************)
C3_RootOnlyWithSteps ==
  out.op = "run" =>
    (out.result[2] # <<>> => out.result[1] # <<>> \/ out.result[3] # <<>>)

(***************************************************************************)
(* C4.  A string token that equals a reserved marker or has the form       *)
(* Object(...) is exported in a form that is neither a sentinel marker nor *)
(* a composite encoding, and import restores the original string.          *)
(***************************************************************************)
LooksReserved(t) ==
  t.k = "string" /\ (symbolRegexTest(t.v) \/ objectRegexTest(t.v))

C4_ReservedStringsRestored ==
  (out.op = "fromJSON" /\ out.generated.status = "ok") =>
    \A i \in 1..Len(model) : \A j \in 1..Len(model[i].key) :
      LooksReserved(model[i].key[j]) =>
        LET exported == out.json[i][1][j]
        IN  /\ ~symbolRegexTest(exported.v)
            /\ ~objectRegexTest(exported.v)
            /\ parseTokenString(exported) = model[i].key[j]
            /\ MapHas(out.generated.model, model[i].key)

(***************************************************************************)
(* C7.  Every token a forward (backward) walk yields is, when it is drawn, *)
(* a key with positive count of the nextTable (prevTable) of the state the *)
(* walk is in.                                                             *)
(***************************************************************************)
C7_StepsAreTransitions ==
  (gen.status \in {"suspended", "done"} /\ Len(gen.steps) > 0) =>
    TableCount(model, CanonState(gen.drawnFrom),
               IF gen.forward THEN 1 ELSE 2,
               Canon(gen.steps[Len(gen.steps)])) > 0

\* a walk that has yielded two tokens, the second a composite value
C7_Witness ==
  /\ gen.status = "suspended"
  /\ Len(gen.steps) = 2
  /\ gen.steps[2].k = "object"

(***************************************************************************)
(* C8.  If a window of the BEGIN-padded input other than the first is a    *)
(* key of the state space, the resolved start state is one of the matching *)
(* windows, each of them is a possible outcome, and it is neither the      *)
(* initial state nor taken from the token map.                             *)
(***************************************************************************)
Queries == SeqsUpTo(vocab, MaxTokens)

\* the windows of length order+1 of initialState ++ tokens, the first left out
Windows(tokens) ==
  {SubSeq(initialState \o tokens, i, i + order) : i \in 2..(Len(tokens) + 1)}

Matching(tokens) == {w \in Windows(tokens) : CanonState(w) \in KeySet(model)}

C8_MatchingWindowWins ==
  /\ \A tokens \in Queries, useTokenMap \in BOOLEAN :
       Matching(tokens) # {} =>
         genStateFrom(this, tokens, useTokenMap)
           = {[state |-> w, via |-> "window"] : w \in Matching(tokens)}
  /\ (out.op = "run" /\ Matching(out.tokens) # {}) =>
       /\ out.start \in Matching(out.tokens)
       /\ out.start # initialState
       /\ out.via = "window"

\* two windows of the input match and the run starts from the second
C8_Witness ==
  /\ out.op = "run"
  /\ Len(out.tokens) = 2
  /\ Cardinality(Matching(out.tokens)) = 2
  /\ out.start = SubSeq(initialState \o out.tokens, 3, 3 + order)
  /\ MapHas(model, initialState)

(***************************************************************************)
(* C9.  When no candidate window is a key of the state space: if the flag  *)
(* useTokenMap is set, tokens is non-empty and the token map has an input  *)
(* token as key, the start state is a member of tokenMap[t] for an input   *)
(* token t, a state of the state space that contains t; when the flag is   *)
(* not set or no input token is in the token map, the start state is the   *)
(* initial state.  Tokens are compared by structure.                       *)
(***************************************************************************)
Elements(seq) == {seq[i] : i \in 1..Len(seq)}

\* the keys of the token map that are the token t
KeysFor(t) ==
  IF tokenMap.defined
  THEN {key \in KeySet(tokenMap.map) : Canon(key) = Canon(t)}
  ELSE {}

InTokenMap(tokens) == {t \in Elements(tokens) : KeysFor(t) # {}}

C9_TokenMapFallback ==
  (out.op = "run" /\ Matching(out.tokens) = {}) =>
    IF out.useTokenMap /\ InTokenMap(out.tokens) # {}
    THEN /\ CanonState(out.start) \in KeySet(model)
         /\ \E t \in InTokenMap(out.tokens) :
              /\ \E key \in KeysFor(t) : out.start \in MapGet(tokenMap.map, key)
              /\ Canon(t) \in Elements(CanonState(out.start))
    ELSE out.start = initialState

(***************************************************************************)
(* C10.  When runMissingTokens is false, tokens is non-empty and the       *)
(* resolution fell back to the initial state, run returns [[], [], []]     *)
(* without walking, even if the initial state has successors.              *)
(***************************************************************************)
C10_RefusesOffTopic ==
  ( /\ out.op = "run"
    /\ ~out.runMissingTokens
    /\ out.tokens # <<>>
    /\ out.start = initialState ) =>
      /\ out.result = <<<<>>, <<>>, <<>>>>
      /\ ~out.walked

\* an off-corpus token refused on a chain whose initial state has successors
\* other than END
C10_Witness ==
  /\ out.op = "run"
  /\ ~out.runMissingTokens
  /\ out.tokens # <<>>
  /\ \A n \in 1..Len(corpus) :
       Elements(out.tokens) \cap Elements(corpus[n]) = {}
  /\ out.start = initialState
  /\ out.backSearch
  /\ out.result = <<<<>>, <<>>, <<>>>>
  /\ TableSum(model, initialState, 1) > 0
  /\ TableCount(model, initialState, 1, END) = 0

(***************************************************************************)
(* C11.  run returns exactly three sequences, backSteps, rootTokens and    *)
(* forwardSteps, and neither BEGIN nor END occurs in any of them, whatever *)
(* the chain seeded and whatever the arguments.                            *)
(***************************************************************************)
C11_NoSentinelInResult ==
  out.op = "run" =>
    /\ Len(out.result) = 3
    /\ \A part \in 1..3 : Elements(out.result[part]) \cap {BEGIN, END} = {}

\* a run from a state that holds BEGIN, with root tokens and forward steps
C11_Witness ==
  /\ out.op = "run"
  /\ out.walked
  /\ BEGIN \in Elements(out.start)
  /\ out.start # initialState
  /\ out.result[2] # <<>>
  /\ out.result[3] # <<>>

(***************************************************************************)
(* C12.  Seeding is append-only: over every operation of the chain, every  *)
(* state present before is present after, and every nextTable and          *)
(* prevTable count after is greater than or equal to its value before.     *)
(***************************************************************************)
AppendOnly(before, after) ==
  \A s \in KeySet(before) :
    /\ MapHas(after, s)
    /\ \A index \in 1..2 :
         \A t \in KeySet(MapGet(before, s)[index]) :
           /\ MapHas(MapGet(after, s)[index], t)
           /\ TableCount(after, s, index, t) >= TableCount(before, s, index, t)

C12_AppendOnly == [][AppendOnly(model, model')]_vars

\* a run seeded a second time: the count of an entry that existed went up
C12_Witness ==
  /\ seeds = 1
  /\ Len(corpus) = 2
  /\ corpus[1] = corpus[2]
  /\ corpus[1] # <<>>
  /\ TableCount(model, initialState, 1, Canon(corpus[1][1])) = 2
  /\ Cardinality(KeySet(model)) > 1

(***************************************************************************)
(* C13.  In every state space reached by seeding, every count of every     *)
(* nextTable and prevTable is a positive integer, a state is in the map    *)
(* exactly when a seeded run was observed in it, and both tables of a      *)
(* state of the map are non-empty.                                         *)
(***************************************************************************)
\* every tuple of order + 1 tokens, observed or not
CandidateStates ==
  {CanonState(s) : s \in [1..(order + 1) -> vocab \cup {BEGIN, END}]}

PositiveCounts(table) ==
  \A i \in 1..Len(table) : table[i].val \in Nat \ {0}

C13_PositiveAndObserved ==
  /\ \A i \in 1..Len(model) :
       /\ Observed(model[i].key) >= 1
       /\ model[i].val[1] # <<>> /\ PositiveCounts(model[i].val[1])
       /\ model[i].val[2] # <<>> /\ PositiveCounts(model[i].val[2])
  /\ \A s \in CandidateStates : Observed(s) = 0 => ~MapHas(model, s)

\* seeded after construction, with a count above 1, a state other than the
\* initial state and a tuple of the alphabet that was never observed
C13_Witness ==
  /\ seeds = 1
  /\ \E i \in 1..Len(model) :
       /\ model[i].key # initialState
       /\ \E j \in 1..Len(model[i].val[1]) : model[i].val[1][j].val > 1
  /\ \E s \in CandidateStates :
       /\ END \notin Elements(s)
       /\ ~MapHas(model, s)

(***************************************************************************)
(* C14.  fromJSON infers the order from the state length of the first      *)
(* record; when a later record has another state length it fails with the  *)
(* consistency error, which reports the expected order and the order of    *)
(* the first such record, and no chain is produced; when every record has  *)
(* the state length of the first, no consistency error is raised and the   *)
(* chain produced has the inferred order.                                  *)
(***************************************************************************)
Offending(json) ==
  {i \in 2..Len(json) : Len(json[i][1]) # Len(json[1][1])}

C14_InconsistentLengths ==
  out.op = "import" =>
    LET json == out.json
        g == out.generated
    IN  IF Offending(json) # {}
        THEN /\ g.status = "Error"
             /\ g.expected = Len(json[1][1]) - 1
             /\ \E i \in Offending(json) :
                  /\ \A j \in Offending(json) : i <= j
                  /\ g.actual = Len(json[i][1]) - 1
                  /\ g.state = json[i][1]
             /\ g.model = <<>>
        ELSE /\ g.status # "Error"
             /\ g.status = "ok" => g.order = Len(json[1][1]) - 1

\* three records, the second consistent with the first, the third not
C14_Witness ==
  /\ out.op = "import"
  /\ Len(out.json) = 3
  /\ Offending(out.json) = {3}
  /\ out.generated.status = "Error"
  /\ out.generated.expected = 1
  /\ out.generated.actual = 0

(***************************************************************************)
(* C15.  Constructing a chain with a negative order fails with an error    *)
(* thrown by the constructor: no chain is produced and no run of the       *)
(* corpus is seeded.                                                       *)
(***************************************************************************)
C15_NegativeOrderFails ==
  (out.op = "new" /\ out.order < 0) =>
    /\ out.generated.status \in {"Error", "RangeError"}
    /\ out.generated.model = <<>>
    /\ out.generated.seeded = 0

\* order -1 with a corpus that has a run to seed
C15_Witness ==
  /\ out.op = "new"
  /\ out.order = 0 - 1
  /\ out.corpus # <<>>
  /\ out.corpus[1] # <<>>
  /\ out.generated.status = "Error"

(***************************************************************************)
(* C16.  Seeding an empty run performs exactly one iteration: it           *)
(* increments nextTable[initialState][END] and prevTable[initialState]     *)
(* [BEGIN] by 1 and touches no other entry and no other state.             *)
(***************************************************************************)
SeededEmptyRun(before, after) ==
  /\ TableCount(after, initialState, 1, END)
       = TableCount(before, initialState, 1, END) + 1
  /\ TableCount(after, initialState, 2, BEGIN)
       = TableCount(before, initialState, 2, BEGIN) + 1
  /\ \A t \in TokensAndKeys :
       /\ t # END => TableCount(after, initialState, 1, t)
                       = TableCount(before, initialState, 1, t)
       /\ t # BEGIN => TableCount(after, initialState, 2, t)
                         = TableCount(before, initialState, 2, t)
  /\ KeySet(after) = KeySet(before) \cup {initialState}
  /\ \A s \in KeySet(before) \ {initialState} :
       MapGet(after, s) = MapGet(before, s)

C16_EmptyRun ==
  [][corpus' = Append(corpus, <<>>) => SeededEmptyRun(model, model')]_vars

\* an empty run seeded into a chain that held other states and no END after
\* the initial state
C16_Witness ==
  /\ seeds = 1
  /\ Len(corpus) = 2
  /\ corpus[1] # <<>>
  /\ corpus[2] = <<>>
  /\ Cardinality(KeySet(model)) > 1
  /\ TableCount(model, initialState, 1, END) = 1
  /\ TableSum(model, initialState, 1) = 2

(***************************************************************************)
(* C17.  Composite tokens are keyed by structure: however many instances   *)
(* of structurally equal composite tokens the seeded runs hold, they       *)
(* update one state key and one transition-table entry, so the count of    *)
(* an entry is the number of observations of its state followed by a token *)
(* structurally equal to its key (2, not two entries of 1).  Two objects   *)
(* are structurally equal when they have the same properties with the      *)
(* same values.                                                            *)
(***************************************************************************)
\* the members of the text of a flat object, in any order
RECURSIVE Members(_, _, _)
Members(text, from, i) ==
  IF i > Len(text) - 1
  THEN IF from > Len(text) - 1 THEN {} ELSE {SubSeq(text, from, Len(text) - 1)}
  ELSE IF SubSeq(text, i, i) = ","
  THEN {SubSeq(text, from, i - 1)} \cup Members(text, i + 1, i + 1)
  ELSE Members(text, from, i + 1)

Properties(text) == Members(text, 2, 2)

SameToken(t, u) ==
  IF TypeofObject(t) /\ TypeofObject(u)
  THEN Properties(t.v) = Properties(u.v)
  ELSE ~TypeofObject(t) /\ ~TypeofObject(u) /\ t = u

SameState(s, w) ==
  /\ Len(s) = Len(w)
  /\ \A i \in 1..Len(s) : SameToken(s[i], w[i])

ObservedSame(s, t) ==
  Cardinality({p \in Positions :
                 /\ SameState(WindowAt(p), s)
                 /\ SameToken(SuccessorAt(p), t)})

C17_StructuralKeys ==
  /\ \A i, j \in 1..Len(model) :
       SameState(model[i].key, model[j].key) => i = j
  /\ \A i \in 1..Len(model) :
       \A a \in 1..Len(model[i].val[1]) :
         model[i].val[1][a].val
           = ObservedSame(model[i].key, model[i].val[1][a].key)

(***************************************************************************)
(* C18.  A chain made by the constructor, from options or from a           *)
(* serialised state space, holds a token map exactly when one was          *)
(* requested and its order is positive; the token map then maps each       *)
(* token of a state of the state space to exactly the set of states that   *)
(* contain the token anywhere in their tuple, and has no other key.        *)
(***************************************************************************)
StatesWith(m, token) == {s \in KeySet(m) : token \in Elements(s)}

TokensOf(m) == UNION {Elements(s) : s \in KeySet(m)}

ExactTokenMap(map, m) ==
  /\ UniqueKeys(map)
  /\ KeySet(map) = TokensOf(m)
  /\ \A token \in TokensOf(m) : MapGet(map, token) = StatesWith(m, token)

C18_TokenMapExact ==
  (out.op \in {"new", "import", "fromJSON"} /\ out.generated.status = "ok") =>
    LET g == out.generated
    IN  /\ g.tokenMap.defined <=> (out.useTokenMap /\ g.order > 0)
        /\ g.tokenMap.defined => ExactTokenMap(g.tokenMap.map, g.model)

\* a chain of order 1 constructed with a token map in which a token lies in
\* several states, and a state holds two different tokens
C18_Witness ==
  /\ out.op = "new"
  /\ out.useTokenMap
  /\ out.generated.status = "ok"
  /\ out.generated.tokenMap.defined
  /\ Len(out.generated.model) >= 3
  /\ \E token \in TokensOf(out.generated.model) :
       /\ token # BEGIN
       /\ Cardinality(MapGet(out.generated.tokenMap.map, token)) >= 2

(***************************************************************************)
(* C19.  run, walkForward, walkBackward and toJSON are read-only: under    *)
(* any interleaving of pulls from two lazy walks, run calls and exports,   *)
(* with no seeding in between, the state space, the token map and the      *)
(* order are unchanged, and so they are when a walk is abandoned before    *)
(* it finishes.                                                            *)
(***************************************************************************)
C19_ReadersWriteNothing ==
  [][model' = model /\ tokenMap' = tokenMap /\ order' = order]_vars

\* a walk from a state the state space does not hold, a second walk
\* suspended after one pull, and a run made while they are held
C19_Witness ==
  /\ gen.status \in {"suspended", "done"}
  /\ ~MapHas(model, CanonState(gen.state))
  /\ gen2.status = "suspended"
  /\ Len(gen2.steps) = 1
  /\ out.op = "run"
  /\ out.walked

(***************************************************************************)
(* C20.  When run walks: forwardSteps is a forward walk from the resolved  *)
(* start state; when backSearch is false backSteps is empty; when          *)
(* backSearch is true backSteps is a backward walk from the start state    *)
(* in reversed order, so its last element is the first token drawn         *)
(* backward, a predecessor of the start state.                             *)
(***************************************************************************)
IsReversed(steps, drawn) ==
  /\ Len(steps) = Len(drawn)
  /\ \A i \in 1..Len(steps) : steps[i] = drawn[Len(drawn) + 1 - i]

C20_BackSearch ==
  (out.op = "run" /\ out.walked) =>
    LET backSteps == out.result[1]
        forwardSteps == out.result[3]
    IN  /\ forwardSteps \in walk(model, out.start, TRUE, MaxSteps)
        /\ IF out.backSearch
           THEN /\ \E drawn \in walk(model, out.start, FALSE, MaxSteps) :
                     IsReversed(backSteps, drawn)
                /\ backSteps # <<>> =>
                     TableCount(model, CanonState(out.start), 2,
                                Canon(backSteps[Len(backSteps)])) > 0
           ELSE backSteps = <<>>

\* a backward walk of two different tokens
C20_Witness ==
  /\ out.op = "run"
  /\ out.walked
  /\ out.backSearch
  /\ Len(out.result[1]) = 2
  /\ out.result[1][1] # out.result[1][2]
  /\ out.result[3] # <<>>

(***************************************************************************)
(* C21.  run({tokens: []}) on a chain built from an empty corpus, whose    *)
(* state space is empty, returns [[], [], []].                             *)
(***************************************************************************)
C21_EmptyChainRun ==
  (out.op = "run" /\ out.tokens = <<>> /\ corpus = <<>>) =>
    /\ model = <<>>
    /\ out.result = <<<<>>, <<>>, <<>>>>

\* the run walked both ways from the initial state of an empty chain
C21_Witness ==
  /\ out.op = "run"
  /\ out.tokens = <<>>
  /\ corpus = <<>>
  /\ order = 1
  /\ out.walked
  /\ out.backSearch
  /\ out.start = initialState
  /\ out.result = <<<<>>, <<>>, <<>>>>

(***************************************************************************)
(* C22.  Every token run returns, in backSteps, rootTokens and             *)
(* forwardSteps, is a token of a seeded run, a composite token being the   *)
(* structured value itself: the tagged tuple that stands for a composite   *)
(* token inside the maps never appears in the result, whether a window or  *)
(* the token map chose the start state.                                    *)
(***************************************************************************)
Supplied == UNION {{Canon(t) : t \in Elements(corpus[n])} : n \in 1..Len(corpus)}

C22_NoEncodingInResult ==
  out.op = "run" =>
    \A part \in 1..3 :
      \A t \in Elements(out.result[part]) :
        /\ ~isObjectToken(t)
        /\ Canon(t) \in Supplied

(***************************************************************************)
(* C23.  After any sequence of seed operations that are given the token    *)
(* map of the chain, for every state key of the state space and every      *)
(* token of that state, the entry of the token map for that token holds    *)
(* that state, and the token map is the one derived from the state space.  *)
(* Tokens and states are compared by structure.                            *)
(***************************************************************************)
CanonStates(entry) == {CanonState(s) : s \in entry}

CanonTokenMap(map) ==
  {<<Canon(map[i].key), CanonStates(map[i].val)>> : i \in 1..Len(map)}

C23_TokenMapFollowsSeeds ==
  tokenMap.defined =>
    /\ \A s \in KeySet(model) :
         \A t \in Elements(s) :
           /\ KeysFor(t) # {}
           /\ \A key \in KeysFor(t) :
                s \in CanonStates(MapGet(tokenMap.map, key))
    /\ CanonTokenMap(tokenMap.map) = Mapping(buildTokenMap(model))

(***************************************************************************)
(* C24.  _step(state, direction) returns the stop sentinel of the          *)
(* direction, END forward and BEGIN backward, whenever the state is absent *)
(* from the state space or has no transition in that direction, and a walk *)
(* that is at such a state ends at its next pull.                          *)
(***************************************************************************)
NoTransitions(m, state, forward) ==
  \/ ~modelHas(m, state)
  \/ modelGet(m, state)[IF forward THEN 1 ELSE 2] = <<>>

C24_StopWhenNoTransitions ==
  /\ \A state \in StartStates \ {NoState}, forward \in BOOLEAN :
       NoTransitions(model, state, forward) =>
         step(model, state, forward) = {stopToken(forward)}
  /\ (gen # NoWalk /\ gen.status = "suspended"
        /\ NoTransitions(model, gen.state, gen.forward)) =>
       \A g \in walkNext(gen) : g.status = "done"

(***************************************************************************)
(* C25.  A walk ends, without yielding it, at the first step equal to the  *)
(* stop sentinel of its direction; after each yielded token t its state    *)
(* becomes state[1..] ++ [t] forward and [t] ++ state[..order-1] backward, *)
(* so the state keeps the length order + 1 and the tokens are yielded in   *)
(* the order they were drawn.                                              *)
(***************************************************************************)
Pulled(g, h) ==
  \/ /\ h.status = "done"
     /\ h.steps = g.steps
     /\ h.state = g.state
     /\ stopToken(g.forward) \in step(model, g.state, g.forward)
  \/ /\ h.status = "suspended"
     /\ Len(h.steps) = Len(g.steps) + 1
     /\ SubSeq(h.steps, 1, Len(g.steps)) = g.steps
     /\ LET t == h.steps[Len(h.steps)]
        IN  /\ t # stopToken(g.forward)
            /\ Canon(t) \in {Canon(s) : s \in step(model, g.state, g.forward)}
            /\ h.state = IF g.forward
                         THEN SubSeq(g.state, 2, Len(g.state)) \o <<t>>
                         ELSE <<t>> \o SubSeq(g.state, 1, Len(g.state) - 1)
            /\ Len(h.state) = order + 1

C25_WalkSlides ==
  [][(gen # NoWalk /\ gen.status = "suspended" /\ gen' # NoWalk /\ gen' # gen)
       => Pulled(gen, gen')]_vars

\* a forward walk of order 1 suspended after two yielded tokens
C25_Witness ==
  /\ gen # NoWalk
  /\ gen.status = "suspended"
  /\ gen.forward
  /\ order = 1
  /\ Len(gen.steps) = 2
  /\ gen.steps[1] # gen.steps[2]
  /\ gen.state = <<gen.steps[1], gen.steps[2]>>

(***************************************************************************)
(* C26.  For every non-empty list of non-negative integer weights with a   *)
(* positive total and every draw d in [0, total), weightedPick returns the *)
(* least index i whose cumulative sum exceeds d: 0 <= i < len(weights),    *)
(* weights[i] > 0, and i is returned for exactly weights[i] of the total   *)
(* integer draws.  Indices count from 0.                                   *)
(***************************************************************************)
Cumulative(w, i) == SumOf(SubSeq(w, 1, i + 1))

C26_WeightedPick ==
  out.op = "weightedPick" =>
    LET w == out.weights
        d == out.draw
        i == out.index
    IN  /\ 0 <= i /\ i < Len(w)
        /\ Cumulative(w, i) > d
        /\ \A j \in 0..(i - 1) : Cumulative(w, j) <= d
        /\ w[i + 1] > 0
        /\ Cardinality({e \in 0..(SumOf(w) - 1) : weightedPick(w, e) = i})
             = w[i + 1]

\* weights 1 and 3: the second index is picked, as for 3 of the 4 draws
C26_Witness ==
  /\ out.op = "weightedPick"
  /\ out.weights = <<1, 3>>
  /\ out.draw = 1
  /\ out.index = 1

(***************************************************************************)
(* C27.  In every state space reached by seeding, no state key holds END,  *)
(* no nextTable has BEGIN as a key and no prevTable has END as a key; the  *)
(* all-BEGIN initial state is the only state made of sentinels alone, and  *)
(* the sum of its nextTable counts is the number of runs seeded.           *)
(***************************************************************************)
C27_SentinelPlacement ==
  /\ \A i \in 1..Len(model) :
       /\ END \notin Elements(model[i].key)
       /\ BEGIN \notin KeySet(model[i].val[1])
       /\ END \notin KeySet(model[i].val[2])
       /\ Elements(model[i].key) \subseteq {BEGIN, END} =>
            model[i].key = [j \in 1..(order + 1) |-> BEGIN]
  /\ TableSum(model, [j \in 1..(order + 1) |-> BEGIN], 1) = Len(corpus)

\* two runs seeded into a chain of order 1 that holds three states or more
C27_Witness ==
  /\ seeds = 1
  /\ order = 1
  /\ Len(corpus) = 2
  /\ Len(model) >= 3
  /\ TableSum(model, initialState, 1) = 2
  /\ \E i \in 1..Len(model) : END \in KeySet(model[i].val[1])

(***************************************************************************)
(* C28.  A walk that is at a state the state space holds never gets to a   *)
(* state it does not hold: a pull leaves it at a state of the state space, *)
(* a seed operation between two pulls keeps its state in the state space,  *)
(* and it ends only by drawing the stop sentinel from the table of its     *)
(* state.  So a walk started from a state of the state space never meets   *)
(* the missing-state dead end.  A state is in the state space when         *)
(* model.has(state) holds.                                                 *)
(***************************************************************************)
StaysInside(g, h, after) ==
  /\ modelHas(after, h.state)
  /\ h.status = "done" =>
       stopToken(g.forward)
         \in KeySet(modelGet(model, g.state)[IF g.forward THEN 1 ELSE 2])

C29_WalksTerminate ==
  /\ [](gen.status = "suspended" => CanStop(gen.state, gen.forward, Len(model)))
  /\ (gen.status = "suspended") ~> (gen.status = "done")

\* a walk is at a state that cannot draw the stop sentinel and can move to
\* itself or to a state that moves back to it: a cycle of non-terminal
\* states
C29_Witness ==
  /\ gen.status = "suspended"
  /\ stopToken(gen.forward) \notin step(model, gen.state, gen.forward)
  /\ \E u \in Successors(gen.state, gen.forward) :
       \/ u = gen.state
       \/ gen.state \in Successors(u, gen.forward)
  /\ gen.drawn # Undefined

(***************************************************************************)
(* C30.  In every result of run on a seeded chain, every order + 2         *)
(* consecutive tokens of backSteps ++ rootTokens ++ forwardSteps are a     *)
(* state of the state space followed by a successor recorded for it.       *)
(***************************************************************************)
Joined == out.result[1] \o out.result[2] \o out.result[3]

FitsAt(i) ==
  LET state == CanonState(SubSeq(Joined, i, i + order))
      next == Canon(Joined[i + order + 1])
  IN  /\ MapHas(model, state)
      /\ MapHas(MapGet(model, state)[1], next)

C30_ResultsFit ==
  (out.op = "run" /\ out.walked) =>
    \A i \in 1..(Len(Joined) - order - 1) : FitsAt(i)

\* a result of order 1 with a token walked backward, the two tokens of the
\* start and a token walked forward
C30_Witness ==
  /\ out.op = "run" /\ out.walked
  /\ order = 1
  /\ Len(out.result[1]) = 1
  /\ Len(out.result[2]) = 2
  /\ Len(out.result[3]) = 1
  /\ \E i \in 1..4 : Joined[i].k = "object"

=============================================================================
